---- MODULE Spec2Model ----
(***************************************************************************)
(* Model of app.py: a Streamlit page with a per-session conversation store *)
(* (st.session_state), a chat tab that relays one user turn to a streamed  *)
(* text call, and an image tab that relays a prompt to a streamed image    *)
(* call.  One script run handles one interaction; inside a run the event   *)
(* loop of a stream is modelled one event per step.                        *)
(***************************************************************************)
EXTENDS Naturals, Sequences, FiniteSets, TLC

VARIABLES
    session_state,   \* st.session_state: a mapping key -> value
    pc,              \* position of the script: idle, text_stream, text_done,
                     \* image_stream, image_done, image_failed
    op,              \* the branch that produced this state (history)
    calls,           \* number of text calls opened so far (response ids)
    acc_text,        \* chat tab: acc_text
    placeholder,     \* chat tab: what the st.empty() slot shows
    final,           \* chat tab: final (None or the final response)
    raised,          \* chat tab: the except branch ran in this turn (history)
    text_events,     \* chat tab: events consumed by the loop (history)
    at_start,        \* session_state when the chat handler began (history)
    at_open,         \* session_state when the stream was opened (history)
    gallery,         \* image tab: gallery
    final_bytes,     \* image tab: final_bytes
    spot,            \* image tab: what the st.empty() slot shows
    shown,           \* image tab: every spot.image(...) call, in order (history)
    alerts,          \* image tab: number of st.error(...) elements written
    download,        \* image tab: data of the download button, if offered
    img_events       \* image tab: events consumed by the loop (history)

vars == <<session_state, pc, op, calls, acc_text, placeholder, final, raised,
          text_events, at_start, at_open, gallery, final_bytes, spot, shown,
          alerts, download, img_events>>

chatVars == <<acc_text, placeholder, final, raised, text_events, at_start, at_open>>
imageVars == <<gallery, final_bytes, spot, shown, alerts, download, img_events>>

----------------------------------------------------------------------------
(* Bounds of the exploration *)

MaxTurns == 2        \* text calls opened in one behaviour
MaxTextEvents == 3   \* events delivered by one text stream
MaxImageEvents == 4  \* events delivered by one image stream

----------------------------------------------------------------------------
(* Python values *)

None == <<>>
Some(x) == <<x>>
Truthy(s) == s # <<>>          \* a non-empty str / bytes / list, or not None

Last(s) == s[Len(s)]

----------------------------------------------------------------------------
(* st.session_state *)

EmptyState == [k \in {} |-> None]

ClearKeepsMessages(ss) == [k \in DOMAIN ss \ {"previous_response_id"} |-> ss[k]]

Clear(ss) == EmptyState

SetDefault(ss, key, value) ==
    [k \in DOMAIN ss \cup {key} |-> IF k \in DOMAIN ss THEN ss[k] ELSE value]

\* lines 59-60, executed at the top of every script run
Defaults(ss) ==
    SetDefault(SetDefault(ss, "messages", <<>>), "previous_response_id", None)

messages == session_state["messages"]
previous_response_id == session_state["previous_response_id"]

Turn(role, content) == [role |-> role, content |-> content]

----------------------------------------------------------------------------
(* Chat tab *)

Prompts == {<<"q">>}

DeltaEvent(d) == [type |-> "response.output_text.delta", delta |-> d]
ErrorEvent == [type |-> "response.error", delta |-> <<>>]
CompletedEvent == [type |-> "response.completed", delta |-> <<>>]

TextEvents == {DeltaEvent(<<"a">>), DeltaEvent(<<"b">>), ErrorEvent, CompletedEvent}
FinalTexts == {<<>>, <<"f">>}

Markdown(t) == [kind |-> "markdown", text |-> t]
ErrorBox == [kind |-> "error", text |-> <<>>]
EmptySlot == [kind |-> "empty", text |-> <<>>]

Response(id, text) == [id |-> id, output_text |-> text]

\* line 99
AppendDeltaReversed(acc, d) == d \o acc

AppendDelta(acc, d) == acc \o d

\* line 111: getattr(final, "output_text", None) or acc_text
OutText(fin, acc) ==
    IF fin # None /\ Truthy(fin[1].output_text) THEN fin[1].output_text ELSE acc

\* line 118: getattr(final, "id", None)
FinalId(fin) == IF fin # None THEN Some(fin[1].id) ELSE None

PersistUnguarded(ss, fin, acc) ==
    [ss EXCEPT !["messages"] = Append(@, Turn("assistant", OutText(fin, acc))),
               !["previous_response_id"] = FinalId(fin)]

\* lines 111-118: the new session_state
Persist(ss, fin, acc) ==
    IF Truthy(OutText(fin, acc))
    THEN [ss EXCEPT !["messages"] = Append(@, Turn("assistant", OutText(fin, acc))),
                    !["previous_response_id"] = FinalId(fin)]
    ELSE ss

\* lines 112-113: the slot after the persist block
Render(slot, fin, acc) ==
    IF Truthy(OutText(fin, acc)) THEN Markdown(OutText(fin, acc)) ELSE slot

Idle == pc \in {"idle", "text_done", "image_done", "image_failed"}

\* a script run starts with none of the previous run's locals or elements
FreshChat ==
    /\ acc_text' = <<>>
    /\ placeholder' = EmptySlot
    /\ final' = None
    /\ raised' = FALSE
    /\ text_events' = <<>>

FreshImage ==
    /\ gallery' = <<>>
    /\ final_bytes' = None
    /\ spot' = None
    /\ shown' = <<>>
    /\ alerts' = 0
    /\ download' = None
    /\ img_events' = <<>>

\* lines 75-96: the user submits a prompt; the script reruns, appends the user
\* turn and opens the stream
Submit ==
    /\ Idle
    /\ calls < MaxTurns
    /\ \E prompt \in Prompts :
        LET ss == Defaults(session_state) IN
        /\ at_start' = ss
        /\ session_state' = [ss EXCEPT !["messages"] = Append(@, Turn("user", prompt))]
    /\ at_open' = session_state'
    /\ calls' = calls + 1
    /\ FreshChat
    /\ FreshImage
    /\ pc' = "text_stream"
    /\ op' = "submit"

\* lines 97-103: one iteration of the event loop
TextEvent(events) ==
    /\ pc = "text_stream"
    /\ Len(text_events) < MaxTextEvents
    /\ \E event \in events :
        /\ text_events' = Append(text_events, event)
        /\ IF event.type = "response.output_text.delta"
           THEN /\ acc_text' = AppendDelta(acc_text, event.delta)
                /\ placeholder' = Markdown(acc_text')
                /\ op' = "text_delta"
           ELSE IF event.type = "response.error"
           THEN /\ placeholder' = ErrorBox
                /\ op' = "text_error"
                /\ UNCHANGED acc_text
           ELSE /\ op' = "text_ignored"
                /\ UNCHANGED <<acc_text, placeholder>>
    /\ UNCHANGED <<session_state, pc, calls, final, raised, at_start, at_open>>
    /\ UNCHANGED imageVars

\* lines 105, 110-118: the stream is exhausted, the final response is fetched
TextFinish ==
    /\ pc = "text_stream"
    /\ \E text \in FinalTexts :
        final' = Some(Response(calls, text))
    /\ session_state' = Persist(session_state, final', acc_text)
    /\ placeholder' = Render(placeholder, final', acc_text)
    /\ pc' = "text_done"
    /\ op' = "text_finish"
    /\ UNCHANGED <<calls, acc_text, raised, text_events, at_start, at_open>>
    /\ UNCHANGED imageVars

\* lines 106-118: the call raises (on opening, between events, or while the
\* final response is fetched)
TextRaise ==
    /\ pc = "text_stream"
    /\ final' = None
    /\ raised' = TRUE
    /\ session_state' = Persist(session_state, final', acc_text)
    /\ placeholder' = Render(ErrorBox, final', acc_text)
    /\ pc' = "text_done"
    /\ op' = "text_raise"
    /\ UNCHANGED <<calls, acc_text, text_events, at_start, at_open>>
    /\ UNCHANGED imageVars

\* lines 44-46, then the rerun's lines 59-60
NewChat ==
    /\ Idle
    /\ session_state' = Defaults(Clear(session_state))
    /\ pc' = "idle"
    /\ op' = "new_chat"
    /\ FreshChat
    /\ FreshImage
    /\ UNCHANGED <<calls, at_start, at_open>>

----------------------------------------------------------------------------
(* base64.b64decode, for payloads of whole 4-character groups *)

B64Chars ==
    <<"A","B","C","D","E","F","G","H","I","J","K","L","M","N","O","P",
      "Q","R","S","T","U","V","W","X","Y","Z","a","b","c","d","e","f",
      "g","h","i","j","k","l","m","n","o","p","q","r","s","t","u","v",
      "w","x","y","z","0","1","2","3","4","5","6","7","8","9","+","/">>

B64Val(c) == (CHOOSE i \in 1..Len(B64Chars) : B64Chars[i] = c) - 1

\* the bytes of one group of four characters
B64Group(g) ==
    LET a == B64Val(g[1])
        b == B64Val(g[2])
        first == a * 4 + b \div 16
    IN  IF g[3] = "="
        THEN <<first>>
        ELSE LET c == B64Val(g[3])
                 second == (b % 16) * 16 + c \div 4
             IN  IF g[4] = "="
                 THEN <<first, second>>
                 ELSE <<first, second, (c % 4) * 64 + B64Val(g[4])>>

RECURSIVE B64Decode(_)
B64Decode(s) ==
    IF Len(s) < 4 THEN <<>>
    ELSE B64Group(SubSeq(s, 1, 4)) \o B64Decode(SubSeq(s, 5, Len(s)))

\* b64decode raises on None (TypeError) and on a truncated group (binascii.Error)
B64Raises(b64) == b64 = None \/ Len(b64[1]) % 4 # 0

----------------------------------------------------------------------------
(* Image tab *)

\* an event type, split at its dots
PartialType == <<"image_generation", "partial_image">>
CompletedType == <<"image_generation", "completed">>
AlternateTypes ==
    { <<"image_generation", "image">>, <<"image", "image">>, <<"image", "completed">>,
      <<"response", "image_generation_call", "completed">> }

\* line 180: etype.endswith(".error") or etype == "error"
IsErrorType(etype) ==
    \/ Len(etype) >= 2 /\ Last(etype) = "error"
    \/ etype = <<"error">>

ImageEv(etype, b64) == [type |-> etype, b64_json |-> b64]

Payload1 == <<"A", "Q", "=", "=">>
Payload2 == <<"A", "g", "M", "=">>
Payload3 == <<"B", "A", "U", "G">>

ImageEvents ==
    { ImageEv(PartialType, Some(Payload1)), ImageEv(PartialType, Some(Payload2)),
      ImageEv(PartialType, None),
      ImageEv(CompletedType, Some(Payload3)), ImageEv(CompletedType, Some(Payload1)),
      ImageEv(<<"image", "completed">>, None),
      ImageEv(<<"image_generation", "error">>, None), ImageEv(<<"error">>, None),
      ImageEv(<<"image_generation", "in_progress">>, None) }
    \cup { ImageEv(t, Some(Payload3)) : t \in AlternateTypes }

PartialCaption(n) == <<"Partial preview #", n>>
FinalCaption == <<"Final image">>
FallbackCaption == <<"Final (from last partial)">>

Image(bytes, caption) == [image |-> bytes, caption |-> caption]

\* the locals and elements of the image handler
ImageState == [gallery |-> gallery, final_bytes |-> final_bytes, spot |-> spot,
               shown |-> shown, alerts |-> alerts]

Show(st, bytes, caption) ==
    [st EXCEPT !.spot = Some(Image(bytes, caption)),
               !.shown = Append(@, Image(bytes, caption))]

\* lines 155-163
OnPartial(st, event) ==
    LET img_bytes == B64Decode(event.b64_json[1])
        g == Append(st.gallery, img_bytes)
    IN  Show([st EXCEPT !.gallery = g], img_bytes, PartialCaption(Len(g)))

OnFinalNotShown(st, event) ==
    [st EXCEPT !.final_bytes = Some(B64Decode(event.b64_json[1]))]

\* lines 166-169 and 176-177
OnFinal(st, event) ==
    LET bytes == B64Decode(event.b64_json[1])
    IN  Show([st EXCEPT !.final_bytes = Some(bytes)], bytes, FinalCaption)

\* lines 180-182
OnError(st, event) == [st EXCEPT !.alerts = @ + 1]

\* lines 152-186: which branch of the dispatch takes the event
Branch(event) ==
    IF event.type = PartialType THEN "image_partial"
    ELSE IF event.type = CompletedType THEN "image_final"
    ELSE IF event.type \in AlternateTypes
         THEN IF Truthy(event.b64_json) /\ Truthy(event.b64_json[1])
              THEN "image_final" ELSE "image_ignored"
    ELSE IF IsErrorType(event.type) THEN "image_error"
    ELSE "image_ignored"

Dispatch(st, event) ==
    CASE Branch(event) = "image_partial" -> OnPartial(st, event)
      [] Branch(event) = "image_final" -> OnFinal(st, event)
      [] Branch(event) = "image_error" -> OnError(st, event)
      [] OTHER -> st

FallbackOverridesFinal(st) ==
    IF Truthy(st.gallery)
    THEN Show([st EXCEPT !.final_bytes = Some(Last(st.gallery))],
              Last(st.gallery), FallbackCaption)
    ELSE st

FallbackToFirstPartial(st) ==
    IF st.final_bytes = None /\ Truthy(st.gallery)
    THEN Show([st EXCEPT !.final_bytes = Some(st.gallery[1])],
              st.gallery[1], FallbackCaption)
    ELSE st

\* lines 189-191
Fallback(st) ==
    IF st.final_bytes = None /\ Truthy(st.gallery)
    THEN Show([st EXCEPT !.final_bytes = Some(Last(st.gallery))],
              Last(st.gallery), FallbackCaption)
    ELSE st

\* lines 193-201: the data of the download button, if one is offered
Offer(st) ==
    IF Truthy(st.final_bytes) /\ Truthy(st.final_bytes[1]) THEN st.final_bytes ELSE None

\* lines 151-186: no branch of the dispatch leaves the loop
LoopBreaksOnError(branch) ==
    IF branch = "image_error" THEN "image_failed" ELSE "image_stream"

LoopAfter(branch) == "image_stream"

SetImageState(st) ==
    /\ gallery' = st.gallery
    /\ final_bytes' = st.final_bytes
    /\ spot' = st.spot
    /\ shown' = st.shown
    /\ alerts' = st.alerts

\* lines 136-149: the button is pressed; the script reruns and opens the stream
GenerateImage ==
    /\ Idle
    /\ session_state' = Defaults(session_state)
    /\ FreshChat
    /\ FreshImage
    /\ pc' = "image_stream"
    /\ op' = "generate"
    /\ UNCHANGED <<calls, at_start, at_open>>

\* lines 151-186: one iteration of the event loop; a payload that cannot be
\* decoded raises and is handled by lines 203-205
ImageEvent(events) ==
    /\ pc = "image_stream"
    /\ Len(img_events) < MaxImageEvents
    /\ \E event \in events :
        /\ img_events' = Append(img_events, event)
        /\ IF Branch(event) \in {"image_partial", "image_final"} /\ B64Raises(event.b64_json)
           THEN /\ SetImageState(OnError(ImageState, event))
                /\ pc' = "image_failed"
                /\ op' = "image_raise"
           ELSE /\ SetImageState(Dispatch(ImageState, event))
                /\ pc' = LoopAfter(Branch(event))
                /\ op' = Branch(event)
    /\ UNCHANGED <<session_state, calls, download>>
    /\ UNCHANGED chatVars

\* lines 188-201: the stream is exhausted
ImageEnd ==
    /\ pc = "image_stream"
    /\ SetImageState(Fallback(ImageState))
    /\ download' = Offer(Fallback(ImageState))
    /\ pc' = "image_done"
    /\ op' = "image_end"
    /\ UNCHANGED <<session_state, calls, img_events>>
    /\ UNCHANGED chatVars

\* lines 203-205: the call raises, on opening or between events
ImageRaise ==
    /\ pc = "image_stream"
    /\ alerts' = alerts + 1
    /\ pc' = "image_failed"
    /\ op' = "image_raise"
    /\ UNCHANGED <<session_state, calls, gallery, final_bytes, spot, shown, download,
                   img_events>>
    /\ UNCHANGED chatVars

----------------------------------------------------------------------------

Init ==
    /\ session_state = Defaults(EmptyState)
    /\ pc = "idle"
    /\ op = "init"
    /\ calls = 0
    /\ acc_text = <<>>
    /\ placeholder = EmptySlot
    /\ final = None
    /\ raised = FALSE
    /\ text_events = <<>>
    /\ at_start = Defaults(EmptyState)
    /\ at_open = Defaults(EmptyState)
    /\ gallery = <<>>
    /\ final_bytes = None
    /\ spot = None
    /\ shown = <<>>
    /\ alerts = 0
    /\ download = None
    /\ img_events = <<>>

Next ==
    \/ Submit
    \/ TextEvent(TextEvents)
    \/ TextFinish
    \/ TextRaise
    \/ NewChat

Spec == Init /\ [][Next]_vars

ImageNext ==
    \/ GenerateImage
    \/ ImageEvent(ImageEvents)
    \/ ImageEnd
    \/ ImageRaise

ImageSpec == Init /\ [][ImageNext]_vars

\* both relays in one session, on streams that carry error events
RelayTextEvents == {DeltaEvent(<<"a">>), ErrorEvent}
RelayImageEvents ==
    { ImageEv(PartialType, Some(Payload1)), ImageEv(CompletedType, Some(Payload3)),
      ImageEv(<<"image_generation", "error">>, None), ImageEv(<<"error">>, None) }

RelayNext ==
    \/ Submit
    \/ TextEvent(RelayTextEvents)
    \/ TextFinish
    \/ TextRaise
    \/ NewChat
    \/ GenerateImage
    \/ ImageEvent(RelayImageEvents)
    \/ ImageEnd
    \/ ImageRaise

RelaySpec == Init /\ [][RelayNext]_vars

----------------------------------------------------------------------------
(* Properties of the chat tab *)

TurnDone == pc = "text_done"
TurnFailed == TurnDone /\ raised
TurnSucceeded == TurnDone /\ ~raised

\* the delta payloads of a stream, concatenated in arrival order
RECURSIVE ConcatDeltas(_)
ConcatDeltas(evs) ==
    IF evs = <<>> THEN <<>>
    ELSE IF Head(evs).type = "response.output_text.delta"
         THEN Head(evs).delta \o ConcatDeltas(Tail(evs))
         ELSE ConcatDeltas(Tail(evs))

\* the result policy: the final output text if present, else the deltas
ExpectedText ==
    IF final # None /\ final[1].output_text # <<>>
    THEN final[1].output_text
    ELSE ConcatDeltas(text_events)

\* C1: the stored turn sequence grows by exactly 2 in a successful turn (one
\* user turn, one assistant turn) and by 0 in a turn whose streaming call raised.
C1_GrowthPerTurn ==
    /\ (TurnSucceeded /\ ExpectedText # <<>>)
          => Len(messages) = Len(at_start["messages"]) + 2
    /\ TurnFailed => Len(messages) = Len(at_start["messages"])

\* C2: after a successful turn previous_response_id is the identifier of that
\* call's final response; a call that raised leaves it as it was; a non-null
\* identifier is never replaced by null in a turn.
C2_ResponseIdThreading ==
    /\ (TurnSucceeded /\ ExpectedText # <<>>)
          => previous_response_id = Some(final[1].id)
    /\ TurnFailed => previous_response_id = at_start["previous_response_id"]
    /\ (TurnDone /\ at_start["previous_response_id"] # None)
          => previous_response_id # None

\* C3: when the streaming call raises, also after text deltas were accumulated,
\* the turn sequence is what it was when the call was opened.
C3_FailedCallAppendsNothing ==
    TurnFailed => messages = at_open["messages"]

\* C4: after the New-chat reset the turn sequence is empty and
\* previous_response_id is absent, whatever the conversation was before.
C4_ResetClearsSession ==
    op = "new_chat" =>
        /\ DOMAIN session_state = {"messages", "previous_response_id"}
        /\ messages = <<>>
        /\ previous_response_id = None

C4_Witness ==
    /\ op = "new_chat"
    /\ Len(at_open["messages"]) >= 3
    /\ at_open["previous_response_id"] # None

\* C5: after each delta event the slot shows the concatenation of the deltas
\* received so far; when the call ends without exception with a non-empty
\* result, the slot shows and the store holds the final response's output text
\* if that is non-empty, else the concatenation of all deltas in arrival order.
C5_ResultPolicy ==
    /\ op = "text_delta" => placeholder = Markdown(ConcatDeltas(text_events))
    /\ (TurnSucceeded /\ ExpectedText # <<>>) =>
          /\ placeholder = Markdown(ExpectedText)
          /\ messages = Append(at_open["messages"], Turn("assistant", ExpectedText))

C5_Witness ==
    /\ TurnSucceeded
    /\ final[1].output_text = <<>>
    /\ text_events = <<DeltaEvent(<<"a">>), DeltaEvent(<<"b">>)>>
    /\ placeholder = Markdown(<<"a", "b">>)
    /\ Last(messages) = Turn("assistant", <<"a", "b">>)

\* C9: a text call with an empty final output text and an empty accumulator
\* stores nothing: no assistant turn is appended and previous_response_id keeps
\* the value it had before the call.
C9_EmptyResultStoresNothing ==
    (TurnDone /\ (final = None \/ final[1].output_text = <<>>) /\ acc_text = <<>>)
        => /\ messages = at_open["messages"]
           /\ previous_response_id = at_start["previous_response_id"]

C9_Witness ==
    /\ TurnSucceeded
    /\ final[1].output_text = <<>>
    /\ acc_text = <<>>
    /\ text_events # <<>>
    /\ at_start["previous_response_id"] # None
    /\ previous_response_id = at_start["previous_response_id"]

----------------------------------------------------------------------------
(* Properties of the image tab *)

IsPartialEvent(e) == e.type = PartialType /\ e.b64_json # None
IsCompletionEvent(e) ==
    (e.type = CompletedType \/ e.type \in AlternateTypes) /\ e.b64_json # None
Bytes(e) == B64Decode(e.b64_json[1])

ImageDone == pc = "image_done"

\* the stream was k partial-frame events followed by one completion event
Scripted(k) ==
    /\ Len(img_events) = k + 1
    /\ \A i \in 1..k : IsPartialEvent(img_events[i])
    /\ IsCompletionEvent(img_events[k + 1])

\* C6: for a stream of k partial-frame events followed by one completion
\* event, the slot is written k times with the partial frames captioned 1..k in
\* arrival order, then once with the final image, and the download is the
\* completion event's decoded bytes.
C6_PartialsThenCompletion ==
    \A k \in 0..Len(img_events) :
        (ImageDone /\ Scripted(k)) =>
            /\ shown = [i \in 1..(k + 1) |->
                          IF i <= k
                          THEN Image(Bytes(img_events[i]), PartialCaption(i))
                          ELSE Image(Bytes(img_events[i]), FinalCaption)]
            /\ download = Some(Bytes(img_events[k + 1]))

C6_Witness ==
    /\ ImageDone
    /\ img_events = <<ImageEv(PartialType, Some(Payload1)),
                      ImageEv(PartialType, Some(Payload2)),
                      ImageEv(PartialType, Some(Payload1)),
                      ImageEv(CompletedType, Some(Payload3))>>
    /\ Len(shown) = 4
    /\ download = Some(<<4, 5, 6>>)

PartialEvents == SelectSeq(img_events, IsPartialEvent)

\* C7: when the stream ends without exception, with no completion event that
\* carried a payload and at least one partial frame, the download is the last partial frame's bytes and
\* the slot shows it under the fallback caption.
C7_LastPartialFallback ==
    (/\ ImageDone
     /\ \A i \in 1..Len(img_events) : ~IsCompletionEvent(img_events[i])
     /\ PartialEvents # <<>>)
        => /\ download = Some(Bytes(Last(PartialEvents)))
           /\ spot = Some(Image(Bytes(Last(PartialEvents)), FallbackCaption))

C7_Witness ==
    /\ ImageDone
    /\ img_events = <<ImageEv(PartialType, Some(Payload1)),
                      ImageEv(PartialType, Some(Payload2))>>
    /\ download = Some(<<2, 3>>)
    /\ spot[1].caption = FallbackCaption

\* C10 as stated: whenever a run ends without exception and offers a download,
\* the image last written to the slot is the downloadable bytes, for every
\* ordering of the events.
C10_SlotIsDownload ==
    (ImageDone /\ download # None) => (spot # None /\ spot[1].image = download[1])

\* a partial frame was processed after a completion event that carried a payload
PartialAfterCompletion ==
    \E i, j \in 1..Len(img_events) :
        /\ i < j
        /\ IsCompletionEvent(img_events[i])
        /\ IsPartialEvent(img_events[j])

\* C10 amended: whenever a run ends without exception and offers a download,
\* and no partial-frame event arrived after a completion event, the image last
\* written to the slot is the downloadable bytes.
C10_SlotIsDownloadUnlessLatePartial ==
    (ImageDone /\ download # None /\ ~PartialAfterCompletion)
        => (spot # None /\ spot[1].image = download[1])

C10_Witness ==
    /\ ImageDone
    /\ download # None
    /\ \E i \in 1..Len(img_events) : IsPartialEvent(img_events[i])
    /\ \E i \in 1..Len(img_events) : IsCompletionEvent(img_events[i])
    /\ \E i \in 1..Len(img_events) : IsErrorType(img_events[i].type)
    /\ ~PartialAfterCompletion
    /\ spot[1].image = download[1]

----------------------------------------------------------------------------
(* Stream-level error events, both relays *)

FrameEvents ==
    SelectSeq(img_events, LAMBDA e : IsPartialEvent(e) \/ IsCompletionEvent(e))
CompletionEvents == SelectSeq(img_events, IsCompletionEvent)

\* what the partial-frame and completion events alone determine
ExpectedGallery == [i \in 1..Len(PartialEvents) |-> Bytes(PartialEvents[i])]
ExpectedFinal ==
    IF CompletionEvents = <<>> THEN None ELSE Some(Bytes(Last(CompletionEvents)))
ExpectedDownload ==
    IF CompletionEvents # <<>> THEN ExpectedFinal
    ELSE IF PartialEvents # <<>> THEN Some(Bytes(Last(PartialEvents)))
    ELSE None

\* C8: a stream-level error event is surfaced and the loop goes on: the
\* events after it are reduced as they would have been without it, and the
\* result (stored text, frames, download) is the one those events determine.
C8_ErrorEventsDoNotAbort ==
    /\ op = "text_error" => (pc = "text_stream" /\ placeholder = ErrorBox)
    /\ pc \in {"text_stream", "text_done"} => acc_text = ConcatDeltas(text_events)
    /\ (TurnSucceeded /\ ExpectedText # <<>>)
          => Last(messages) = Turn("assistant", ExpectedText)
    /\ op = "image_error" => (pc = "image_stream" /\ alerts >= 1)
    /\ pc \in {"image_stream", "image_done"} =>
          /\ gallery = ExpectedGallery
          /\ Len(shown) >= Len(FrameEvents)
          /\ \A i \in 1..Len(FrameEvents) : shown[i].image = Bytes(FrameEvents[i])
    /\ pc = "image_stream" => final_bytes = ExpectedFinal
    /\ ImageDone => download = ExpectedDownload

C8_Witness ==
    /\ TurnSucceeded
    /\ text_events = <<DeltaEvent(<<"a">>), ErrorEvent, DeltaEvent(<<"a">>)>>
    /\ final[1].output_text = <<>>
    /\ Last(messages) = Turn("assistant", <<"a", "a">>)

====
